---- MODULE Spec2Model ----
(***************************************************************************)
(* Model of themida_unmutate/main.py: the run of entry_point, i.e.         *)
(* unwrap_functions, the construction of func_addr_to_simplified_cfg and   *)
(* rebuild_simplified_binary (section creation, packing loop, section      *)
(* overwrite, redirect generation, patch application, build and write).    *)
(*                                                                         *)
(* Byte buffers (bytes, bytearray, section content) are run-length         *)
(* encoded: a buffer is a sequence of runs [n |-> count, v |-> value],     *)
(* standing for count bytes of that value.  Values are byte values         *)
(* (0..255) or, for assembled code whose bytes the source never inspects,  *)
(* a tag <<"code", cfg, block>>.                                           *)
(***************************************************************************)
EXTENDS Integers, Sequences, FiniteSets, TLC

VARIABLES pc, error, protected_func_addrs, mutated_func_addrs,
          simplified_func_asmcfgs, func_addr_to_simplified_cfg, loc_db,
          pe_obj, unmut_section_base, original_to_simplified,
          next_min_offset_for_asm, unmut_section_patches, asm_calls,
          text_section, unmut_jmp_patches, applied, idx, output

vars == <<pc, error, protected_func_addrs, mutated_func_addrs,
          simplified_func_asmcfgs, func_addr_to_simplified_cfg, loc_db,
          pe_obj, unmut_section_base, original_to_simplified,
          next_min_offset_for_asm, unmut_section_patches, asm_calls,
          text_section, unmut_jmp_patches, applied, idx, output>>

(***************************************************************************)
(* Bounds of the model.                                                    *)
(***************************************************************************)
\* most addresses given on the command line
MaxFuncs == 2
\* longest patch the encoder returns for one block (the shortest is 1)
MaxLen == 16

(***************************************************************************)
(* Program constants.                                                      *)
(***************************************************************************)
NEW_SECTION_MAX_SIZE == 65536
\* the literal added to the cursor after each function
PADDING == 15

(***************************************************************************)
(* Python values.                                                          *)
(***************************************************************************)
Min(S) == CHOOSE x \in S : \A y \in S : x <= y
Max(S) == CHOOSE x \in S : \A y \in S : x >= y

\* the numbers of blocks a simplified AsmCFG may have: the head alone, or the
\* head and one more block
BlockCounts == { 1, 2 }

\* len(data) of a run-length encoded buffer
RECURSIVE BufLen(_)
BufLen(buf) ==
    IF buf = <<>> THEN 0 ELSE Head(buf).n + BufLen(Tail(buf))

\* buf[:k] for 0 <= k <= len(buf)
RECURSIVE BufTake(_, _)
BufTake(buf, k) ==
    IF k <= 0 \/ buf = <<>> THEN <<>>
    ELSE IF Head(buf).n <= k
         THEN <<Head(buf)>> \o BufTake(Tail(buf), k - Head(buf).n)
         ELSE <<[n |-> k, v |-> Head(buf).v]>>

\* buf[k:] for 0 <= k <= len(buf)
RECURSIVE BufDrop(_, _)
BufDrop(buf, k) ==
    IF buf = <<>> THEN <<>>
    ELSE IF k <= 0 THEN buf
    ELSE IF Head(buf).n <= k
         THEN BufDrop(Tail(buf), k - Head(buf).n)
         ELSE <<[n |-> Head(buf).n - k, v |-> Head(buf).v]>> \o Tail(buf)

\* buf[i] for 0 <= i < len(buf)
RECURSIVE BufAt(_, _)
BufAt(buf, i) ==
    IF i < Head(buf).n THEN Head(buf).v ELSE BufAt(Tail(buf), i - Head(buf).n)

\* bytearray([0] * size)
Zeros(size) == IF size <= 0 THEN <<>> ELSE <<[n |-> size, v |-> 0]>>

\* a slice bound k of a sequence of length n, as Python clamps it
SliceIndex(k, n) ==
    IF k < 0 THEN (IF k + n < 0 THEN 0 ELSE k + n)
    ELSE (IF k > n THEN n ELSE k)

\* the (start, stop) that buf[offset:offset + dlen] selects
SliceBounds(n, offset, dlen) ==
    LET start == SliceIndex(offset, n)
        stop  == SliceIndex(offset + dlen, n)
    IN  <<start, IF stop < start THEN start ELSE stop>>

\* buf after  buf[offset:offset + len(data)] = data
SliceAssign(buf, offset, data) ==
    LET b == SliceBounds(BufLen(buf), offset, BufLen(data))
    IN  BufTake(buf, b[1]) \o data \o BufDrop(buf, b[2])

(***************************************************************************)
(* Python dict: insertion-ordered keys, one value per key.                 *)
(***************************************************************************)
EmptyDict == [keys |-> <<>>, val |-> <<>>]

InDict(d, k) == \E i \in 1..Len(d.keys) : d.keys[i] = k

DictIndex(d, k) == CHOOSE i \in 1..Len(d.keys) : d.keys[i] = k

\* d[k]
DictGet(d, k) == d.val[DictIndex(d, k)]

\* d[k] = v : a key already present keeps its position and takes the new value
DictSet(d, k, v) ==
    IF InDict(d, k)
    THEN [d EXCEPT !.val[DictIndex(d, k)] = v]
    ELSE [keys |-> Append(d.keys, k), val |-> Append(d.val, v)]

(***************************************************************************)
(* The input image and the command line.                                   *)
(***************************************************************************)
\* what lief.PE.parse returns for the protected binary: two sections of code
InputImage ==
    [imagebase |-> 4194304,
     sections  |-> <<
        [name |-> ".text", virtual_address |-> 4096, size |-> 4096,
         virtual_size |-> 4096, content |-> <<[n |-> 4096, v |-> 144]>>],
        [name |-> ".themida", virtual_address |-> 8192, size |-> 4096,
         virtual_size |-> 4096, content |-> <<[n |-> 4096, v |-> 204]>>] >>]

\* args.addresses, as integers: two functions of .text two bytes apart,
\* one function of .themida, one address that no section holds
AddressChoices ==
    { InputImage.imagebase + 4096,
      InputImage.imagebase + 4096 + 2,
      InputImage.imagebase + 8192 + 64,
      InputImage.imagebase + 65536 + 65536 }

RECURSIVE SeqsUpTo(_, _)
SeqsUpTo(S, n) ==
    IF n = 0 THEN { <<>> }
    ELSE LET shorter == SeqsUpTo(S, n - 1)
         IN  shorter \cup { Append(q, x) : q \in shorter, x \in S }

(***************************************************************************)
(* miasm's LocationDB, as the set of its bindings [loc |-> key,            *)
(* offset |-> address]; a loc_key without a binding has offset None.       *)
(* Keys are <<"blk", cfg, block>> for the blocks of the simplified CFGs    *)
(* and <<"name", addr>> for the label loc_<addr> of a redirect stub.       *)
(***************************************************************************)
\* loc_db.get_offset_location(offset): the keys bound to offset (none or one)
get_offset_location(db, offset) == { b.loc : b \in { x \in db : x.offset = offset } }

\* loc_db.unset_location_offset(loc_key)
unset_location_offset(db, k) == { b \in db : b.loc # k }

\* whether loc_db.set_location_offset(loc_key, offset) raises: the offset
\* belongs to another loc_key
OffsetTaken(db, k, offset) == \E b \in db : b.loc # k /\ b.offset = offset

\* loc_db.set_location_offset(loc_key, offset)
set_location_offset(db, k, offset) ==
    { b \in db : b.loc # k } \cup { [loc |-> k, offset |-> offset] }

\* loc_db.get_location_offset(loc_key), for a bound key
get_location_offset(db, k) == (CHOOSE b \in db : b.loc = k).offset

(***************************************************************************)
(* The external collaborators, by their contracts.                         *)
(***************************************************************************)
\* unwrap_function(binary, addr) when it finds the mutated code: an address
\* other than addr (a failure returns addr itself)
unwrap_function(addr) == addr + 512

\* the offset the disassembler bound block k of a function's CFG to
OriginalBlockOffset(mutated, k) == mutated + 16 * (k - 1)

\* the bytes of block k of CFG ci, which the source never looks into: a value
\* that is no byte, one per block
CodeByte(ci, k) == 256 + ci * (Max(BlockCounts) + 1) + k

\* the lengths one block may assemble to
Lens == { 1, MaxLen }

\* where the encoder may put the next block: right after the previous one,
\* or so that it ends with the interval
NextAddrs(free, hi) == { a \in { free } \cup { hi - l + 1 : l \in Lens } : a >= free }

\* the layouts of blocks k..n of CFG ci with block k at address at, every
\* byte within the interval, whose upper bound hi miasm takes as included
RECURSIVE Layouts(_, _, _, _, _)
Layouts(ci, k, n, at, hi) ==
    UNION { LET here == [addr |-> at, data |-> <<[n |-> l, v |-> CodeByte(ci, k)]>>]
            IN  IF k = n THEN { <<here>> }
                ELSE UNION { { <<here>> \o rest : rest \in Layouts(ci, k + 1, n, nxt, hi) }
                             : nxt \in NextAddrs(at + l, hi) }
            : l \in { x \in Lens : at + x - 1 <= hi } }

\* asm_resolve_final(arch, cfg, dst_interval=interval([(lo, hi)])) for CFG ci,
\* whose head loc_db binds: the patch dicts it may return, in block order, the
\* head's patch at the head's offset; none when nothing fits the interval
\* (it raises)
asm_resolve_final(db, ci, nblocks, lo, hi) ==
    LET head_offset == get_location_offset(db, <<"blk", ci, 1>>)
    IN  IF lo > hi \/ head_offset < lo \/ head_offset > hi
        THEN {}
        ELSE Layouts(ci, 1, nblocks, head_offset, hi)

\* the bytes of "JMP target" assembled at addr: EB rel8 when the target is in
\* reach of a short jump, E9 rel32 otherwise; the displacement is two's
\* complement, little endian (\div rounds down, so byte k of d is
\* (d \div 256^k) % 256 for a negative d as well)
JmpBytes(addr, target) ==
    LET d8  == target - (addr + 2)
        r32 == target - (addr + 5)
        one(b) == [n |-> 1, v |-> b]
    IN  IF d8 >= -128 /\ d8 <= 127
        THEN << one(235), one(d8 % 256) >>
        ELSE << one(233), one(r32 % 256), one((r32 \div 256) % 256),
                one((r32 \div 65536) % 256), one((r32 \div 16777216) % 256) >>

\* new_section_patches.keys()
PatchKeys(patches) == { patches[i].addr : i \in 1..Len(patches) }

(***************************************************************************)
(* The image (lief).                                                       *)
(***************************************************************************)
NoImage == [imagebase |-> 0, sections |-> <<>>]

\* the virtual address add_section gives a new section: the end of the last
\* one, rounded up to the section alignment
NextVirtualAddress(img) ==
    LET ends == { img.sections[i].virtual_address + img.sections[i].virtual_size
                    : i \in 1..Len(img.sections) }
    IN  ((Max(ends) + 4095) \div 4096) * 4096

\* lief.PE.Section([0] * NEW_SECTION_MAX_SIZE, NEW_SECTION_NAME, ...) once added
UnmutSection(img) ==
    [name |-> ".unmut", virtual_address |-> NextVirtualAddress(img),
     size |-> NEW_SECTION_MAX_SIZE, virtual_size |-> NEW_SECTION_MAX_SIZE,
     content |-> Zeros(NEW_SECTION_MAX_SIZE)]

\* pe_obj.get_section(name), as an index into pe_obj.sections
get_section(img, name) ==
    CHOOSE i \in 1..Len(img.sections) : img.sections[i].name = name

\* section_from_virtual_address: the first section holding the address, as an
\* index into lief_bin.sections; 0 for None
section_from_virtual_address(lief_bin, virtual_addr) ==
    LET hits == { i \in 1..Len(lief_bin.sections) :
                    /\ lief_bin.sections[i].virtual_address <= virtual_addr
                    /\ virtual_addr < lief_bin.sections[i].virtual_address
                                        + lief_bin.sections[i].size }
    IN  IF hits = {} THEN 0 ELSE Min(hits)

\* the loop  for addr, data in patches: offset = addr - base;
\*           content[offset:offset + len(data)] = data
RECURSIVE ApplyPatches(_, _, _)
ApplyPatches(content, patches, base) ==
    IF patches = <<>> THEN content
    ELSE ApplyPatches(SliceAssign(content, Head(patches).addr - base, Head(patches).data),
                      Tail(patches), base)

\* what each assignment of that loop did: the patch's offset, the slice it
\* replaced and the buffer's length before and after (a record per patch)
RECURSIVE ApplyLog(_, _, _, _)
ApplyLog(content, patches, base, section) ==
    IF patches = <<>> THEN <<>>
    ELSE LET offset == Head(patches).addr - base
             data   == Head(patches).data
             b      == SliceBounds(BufLen(content), offset, BufLen(data))
             after  == SliceAssign(content, offset, data)
         IN  << [section |-> section, addr |-> Head(patches).addr,
                 offset |-> offset, dlen |-> BufLen(data),
                 start |-> b[1], stop |-> b[2],
                 before |-> BufLen(content), after |-> BufLen(after)] >>
             \o ApplyLog(after, Tail(patches), base, section)

(***************************************************************************)
(* rebuild_simplified_binary's arithmetic.                                 *)
(***************************************************************************)
\* the address the head is bound to: unmut_section_base + next_min_offset_for_asm
HeadTarget(base, cursor) == base + cursor

\* dst_interval: (base + cursor, base + virtual_size - cursor)
DstInterval(base, virtual_size, cursor) ==
    << base + cursor, base + virtual_size - cursor >>

\* a slip: the entry taken from the greatest key instead of the least
EntryAddressMax(patches) == Max(PatchKeys(patches))

\* original_to_simplified[addr] = min(new_section_patches.keys())
EntryAddress(patches) == Min(PatchKeys(patches))

\* a slip: the operands of the subtraction exchanged
NextMinOffsetSwapped(patches, base) == base - Max(PatchKeys(patches)) + PADDING

\* a slip: the padding left out
NextMinOffsetNoPadding(patches, base) == Max(PatchKeys(patches)) - base

\* next_min_offset_for_asm = max(new_section_patches.keys()) - base + 15
NextMinOffset(patches, base) == Max(PatchKeys(patches)) - base + PADDING

\* the dict entry_point builds: protected_func_addrs[i] -> i-th simplified CFG
RECURSIVE MapAddrsToCfgs(_, _)
MapAddrsToCfgs(addrs, n) ==
    IF n = 0 THEN EmptyDict
    ELSE DictSet(MapAddrsToCfgs(addrs, n - 1), addrs[n], n)

\* the loc_keys of a CFG's blocks
BlockKeys(ci, nblocks) == { <<"blk", ci, k>> : k \in 1..nblocks }

\* loc_db after the disassembly of the mutated functions: each block bound
\* to the offset it was read from, an offset having one loc_key only
DisassembledLocs(mutated, nblocks) ==
    { [loc |-> <<"blk", i, k>>, offset |-> OriginalBlockOffset(mutated[i], k)] :
        i \in 1..Len(mutated), k \in 1..Max(BlockCounts) }
    \ { b \in { [loc |-> <<"blk", i, k>>, offset |-> OriginalBlockOffset(mutated[i], k)] :
                  i \in 1..Len(mutated), k \in 1..Max(BlockCounts) } :
          \/ b.loc[3] > nblocks[b.loc[2]]
          \/ \E j \in 1..(b.loc[2] - 1) :
                mutated[j] = mutated[b.loc[2]] /\ b.loc[3] <= nblocks[j] }

(***************************************************************************)
(* The run.                                                                *)
(***************************************************************************)
Init ==
    /\ pc = "unwrap"
    /\ error = ""
    /\ protected_func_addrs \in SeqsUpTo(AddressChoices, MaxFuncs)
    /\ mutated_func_addrs = <<>>
    /\ simplified_func_asmcfgs = <<>>
    /\ func_addr_to_simplified_cfg = EmptyDict
    /\ loc_db = {}
    /\ pe_obj = NoImage
    /\ unmut_section_base = 0
    /\ original_to_simplified = EmptyDict
    /\ next_min_offset_for_asm = 0
    /\ unmut_section_patches = <<>>
    /\ asm_calls = <<>>
    /\ text_section = 0
    /\ unmut_jmp_patches = <<>>
    /\ applied = <<>>
    /\ idx = 0
    /\ output = [written |-> FALSE, image |-> NoImage]

\* an exception leaves the run: nothing else changes
Raise(what) ==
    /\ pc' = "failed"
    /\ error' = what

\* unwrap_functions: the first address the unwrapper returns unchanged raises
UnwrapFunctions ==
    /\ pc = "unwrap"
    /\ \E fail_at \in 0..Len(protected_func_addrs) :
          IF fail_at = 0
          THEN /\ mutated_func_addrs' =
                    [i \in 1..Len(protected_func_addrs) |->
                        unwrap_function(protected_func_addrs[i])]
               /\ pc' = "simplify"
               /\ error' = error
          ELSE /\ mutated_func_addrs' =
                    [i \in 1..(fail_at - 1) |-> unwrap_function(protected_func_addrs[i])]
               /\ Raise("Failure to unwrap function")
    /\ UNCHANGED <<protected_func_addrs, simplified_func_asmcfgs,
                   func_addr_to_simplified_cfg, loc_db, pe_obj, unmut_section_base,
                   original_to_simplified, next_min_offset_for_asm,
                   unmut_section_patches, asm_calls, text_section,
                   unmut_jmp_patches, applied, idx, output>>

\* disassemble_and_simplify_functions (one CFG per address, in order) and
\* the dict comprehension of entry_point
SimplifyFunctions ==
    /\ pc = "simplify"
    /\ \E nblocks \in [1..Len(mutated_func_addrs) -> BlockCounts] :
          /\ simplified_func_asmcfgs' =
                [i \in 1..Len(mutated_func_addrs) |->
                    [mutated |-> mutated_func_addrs[i], nblocks |-> nblocks[i]]]
          /\ loc_db' = DisassembledLocs(mutated_func_addrs, nblocks)
    /\ func_addr_to_simplified_cfg' =
          MapAddrsToCfgs(protected_func_addrs, Len(mutated_func_addrs))
    /\ pc' = "rebuild"
    /\ UNCHANGED <<error, protected_func_addrs, mutated_func_addrs, pe_obj,
                   unmut_section_base, original_to_simplified,
                   next_min_offset_for_asm, unmut_section_patches, asm_calls,
                   text_section, unmut_jmp_patches, applied, idx, output>>

\* a slip: the emptiness check left out
IsEmptyInputNever(d) == FALSE

\* len(func_addr_to_simplified_cfg) == 0
IsEmptyInput(d) == Len(d.keys) = 0

\* rebuild_simplified_binary's first statement: an empty dict raises ValueError
CheckEmpty ==
    /\ pc = "rebuild"
    /\ IF IsEmptyInput(func_addr_to_simplified_cfg)
       THEN Raise("ValueError")
       ELSE pc' = "parse" /\ error' = error
    /\ UNCHANGED <<protected_func_addrs, mutated_func_addrs, simplified_func_asmcfgs,
                   func_addr_to_simplified_cfg, loc_db, pe_obj, unmut_section_base,
                   original_to_simplified, next_min_offset_for_asm,
                   unmut_section_patches, asm_calls, text_section,
                   unmut_jmp_patches, applied, idx, output>>

\* lief.PE.parse: the image, or None, which raises
ParsePE ==
    /\ pc = "parse"
    /\ \E parsed \in BOOLEAN :
          IF parsed
          THEN pe_obj' = InputImage /\ pc' = "add_section" /\ error' = error
          ELSE pe_obj' = pe_obj /\ Raise("Failed to parse PE")
    /\ UNCHANGED <<protected_func_addrs, mutated_func_addrs, simplified_func_asmcfgs,
                   func_addr_to_simplified_cfg, loc_db, unmut_section_base,
                   original_to_simplified, next_min_offset_for_asm,
                   unmut_section_patches, asm_calls, text_section,
                   unmut_jmp_patches, applied, idx, output>>

\* the new section is added; the packing loop's variables are initialised
AddSection ==
    /\ pc = "add_section"
    /\ pe_obj' = [pe_obj EXCEPT !.sections = Append(@, UnmutSection(pe_obj))]
    /\ unmut_section_base' = pe_obj.imagebase + UnmutSection(pe_obj).virtual_address
    /\ original_to_simplified' = EmptyDict
    /\ next_min_offset_for_asm' = 0
    /\ unmut_section_patches' = <<>>
    /\ idx' = 1
    /\ pc' = "pack"
    /\ UNCHANGED <<error, protected_func_addrs, mutated_func_addrs,
                   simplified_func_asmcfgs, func_addr_to_simplified_cfg, loc_db,
                   asm_calls, text_section, unmut_jmp_patches, applied, output>>

\* loc_db once the encoder has placed the blocks: each at its patch's address
RECURSIVE BindBlocks(_, _, _, _)
BindBlocks(db, ci, patches, k) ==
    IF k > Len(patches) THEN db
    ELSE BindBlocks(set_location_offset(db, <<"blk", ci, k>>, patches[k].addr),
                    ci, patches, k + 1)

\* loc_db with every block of the CFG unpinned
UnpinBlocks(db, ci, nblocks) == { b \in db : b.loc \notin BlockKeys(ci, nblocks) }

\* one iteration of the packing loop, for the idx-th item of the dict
PackFunction ==
    /\ pc = "pack"
    /\ idx <= Len(func_addr_to_simplified_cfg.keys)
    /\ LET protected_func_addr == func_addr_to_simplified_cfg.keys[idx]
           ci       == func_addr_to_simplified_cfg.val[idx]
           nblocks  == simplified_func_asmcfgs[ci].nblocks
           head     == <<"blk", ci, 1>>
           unpinned == UnpinBlocks(loc_db, ci, nblocks)
           target   == HeadTarget(unmut_section_base, next_min_offset_for_asm)
           vsize    == pe_obj.sections[get_section(pe_obj, ".unmut")].virtual_size
           dst      == DstInterval(unmut_section_base, vsize, next_min_offset_for_asm)
       IN  IF OffsetTaken(unpinned, head, target)
           THEN /\ Raise("Offset already taken")
                /\ loc_db' = unpinned
                /\ UNCHANGED <<unmut_section_patches, original_to_simplified,
                               next_min_offset_for_asm, asm_calls, idx>>
           ELSE \/ \E new_section_patches \in
                        asm_resolve_final(set_location_offset(unpinned, head, target),
                                          ci, nblocks, dst[1], dst[2]) :
                      /\ loc_db' = BindBlocks(set_location_offset(unpinned, head, target),
                                              ci, new_section_patches, 1)
                      /\ unmut_section_patches' =
                            unmut_section_patches \o new_section_patches
                      /\ original_to_simplified' =
                            DictSet(original_to_simplified, protected_func_addr,
                                    EntryAddress(new_section_patches))
                      /\ next_min_offset_for_asm' =
                            NextMinOffset(new_section_patches, unmut_section_base)
                      /\ asm_calls' = Append(asm_calls,
                            [func |-> protected_func_addr, cfg |-> ci,
                             cursor |-> next_min_offset_for_asm, head |-> target,
                             lo |-> dst[1], hi |-> dst[2],
                             patches |-> new_section_patches])
                      /\ idx' = idx + 1
                      /\ pc' = pc /\ error' = error
                \* the encoder raises: nothing fits the interval, or it cannot
                \* resolve the CFG
                \/ /\ Raise("asm_resolve_final failed")
                   /\ loc_db' = set_location_offset(unpinned, head, target)
                   /\ UNCHANGED <<unmut_section_patches, original_to_simplified,
                                  next_min_offset_for_asm, asm_calls, idx>>
    /\ UNCHANGED <<protected_func_addrs, mutated_func_addrs, simplified_func_asmcfgs,
                   func_addr_to_simplified_cfg, pe_obj, unmut_section_base,
                   text_section, unmut_jmp_patches, applied, output>>

\* after the loop: the section's content is rebuilt from the patches
OverwriteSection ==
    /\ pc = "pack"
    /\ idx > Len(func_addr_to_simplified_cfg.keys)
    /\ LET new_section_size == next_min_offset_for_asm
           new_content == ApplyPatches(Zeros(new_section_size),
                                       unmut_section_patches, unmut_section_base)
       IN  /\ pe_obj' = [pe_obj EXCEPT
                  !.sections[get_section(pe_obj, ".unmut")].content = new_content]
           /\ applied' = applied \o ApplyLog(Zeros(new_section_size),
                            unmut_section_patches, unmut_section_base, ".unmut")
    /\ pc' = "find_section"
    /\ UNCHANGED <<error, protected_func_addrs, mutated_func_addrs,
                   simplified_func_asmcfgs, func_addr_to_simplified_cfg, loc_db,
                   unmut_section_base, original_to_simplified,
                   next_min_offset_for_asm, unmut_section_patches, asm_calls,
                   text_section, unmut_jmp_patches, idx, output>>

\* the section holding the first address of the dict; none fails the assert
FindTextSection ==
    /\ pc = "find_section"
    /\ IF IsEmptyInput(func_addr_to_simplified_cfg)
       THEN Raise("StopIteration") /\ UNCHANGED <<text_section, idx>>
       ELSE LET target_rva == func_addr_to_simplified_cfg.keys[1] - pe_obj.imagebase
                found == section_from_virtual_address(pe_obj, target_rva)
            IN  IF found = 0
                THEN Raise("AssertionError") /\ UNCHANGED <<text_section, idx>>
                ELSE /\ text_section' = found
                     /\ idx' = 1
                     /\ pc' = "redirect" /\ error' = error
    /\ unmut_jmp_patches' = <<>>
    /\ UNCHANGED <<protected_func_addrs, mutated_func_addrs, simplified_func_asmcfgs,
                   func_addr_to_simplified_cfg, loc_db, pe_obj, unmut_section_base,
                   original_to_simplified, next_min_offset_for_asm,
                   unmut_section_patches, asm_calls, applied, output>>

\* one iteration of the redirect loop: a stub "JMP simplified" assembled at
\* the original address
RedirectFunction ==
    /\ pc = "redirect"
    /\ idx <= Len(func_addr_to_simplified_cfg.keys)
    /\ LET target_addr == func_addr_to_simplified_cfg.keys[idx]
           simplified_func_addr == DictGet(original_to_simplified, target_addr)
           original_loc == <<"name", target_addr>>
           unpinned == { b \in loc_db :
                           b.loc \notin get_offset_location(loc_db, target_addr) }
           new_jmp_patches ==
               << [addr |-> target_addr,
                   data |-> JmpBytes(target_addr, simplified_func_addr)] >>
       IN  /\ loc_db' = set_location_offset(unpinned, original_loc, target_addr)
           /\ unmut_jmp_patches' = unmut_jmp_patches \o new_jmp_patches
    /\ idx' = idx + 1
    /\ UNCHANGED <<pc, error, protected_func_addrs, mutated_func_addrs,
                   simplified_func_asmcfgs, func_addr_to_simplified_cfg, pe_obj,
                   unmut_section_base, original_to_simplified,
                   next_min_offset_for_asm, unmut_section_patches, asm_calls,
                   text_section, applied, output>>

\* after the loop: the redirect patches are written into text_section
ApplyJmpPatches ==
    /\ pc = "redirect"
    /\ idx > Len(func_addr_to_simplified_cfg.keys)
    /\ LET text_section_base ==
               pe_obj.imagebase + pe_obj.sections[text_section].virtual_address
           text_section_bytes == pe_obj.sections[text_section].content
       IN  /\ pe_obj' = [pe_obj EXCEPT !.sections[text_section].content =
                  ApplyPatches(text_section_bytes, unmut_jmp_patches, text_section_base)]
           /\ applied' = applied \o ApplyLog(text_section_bytes, unmut_jmp_patches,
                            text_section_base, pe_obj.sections[text_section].name)
    /\ pc' = "build"
    /\ UNCHANGED <<error, protected_func_addrs, mutated_func_addrs,
                   simplified_func_asmcfgs, func_addr_to_simplified_cfg, loc_db,
                   unmut_section_base, original_to_simplified,
                   next_min_offset_for_asm, unmut_section_patches, asm_calls,
                   text_section, unmut_jmp_patches, idx, output>>

\* a slip: the image built and written as soon as the new section is
\* filled, before the redirects are generated and applied
BuildAndWriteEarly ==
    /\ pc = "find_section"
    /\ ~output.written
    /\ output' = [written |-> TRUE, image |-> pe_obj]
    /\ UNCHANGED <<pc, error, protected_func_addrs, mutated_func_addrs,
                   simplified_func_asmcfgs, func_addr_to_simplified_cfg, loc_db,
                   pe_obj, unmut_section_base, original_to_simplified,
                   next_min_offset_for_asm, unmut_section_patches, asm_calls,
                   text_section, unmut_jmp_patches, applied, idx>>

\* builder.build() and builder.write(output_binary_path)
BuildAndWrite ==
    /\ pc = "build"
    /\ output' = [written |-> TRUE, image |-> pe_obj]
    /\ pc' = "done"
    /\ UNCHANGED <<error, protected_func_addrs, mutated_func_addrs,
                   simplified_func_asmcfgs, func_addr_to_simplified_cfg, loc_db,
                   pe_obj, unmut_section_base, original_to_simplified,
                   next_min_offset_for_asm, unmut_section_patches, asm_calls,
                   text_section, unmut_jmp_patches, applied, idx>>

Next ==
    \/ UnwrapFunctions
    \/ SimplifyFunctions
    \/ CheckEmpty
    \/ ParsePE
    \/ AddSection
    \/ PackFunction
    \/ OverwriteSection
    \/ FindTextSection
    \/ RedirectFunction
    \/ ApplyJmpPatches
    \/ BuildAndWrite

Spec == Init /\ [][Next]_vars

(***************************************************************************)
(* Vocabulary of the properties.                                           *)
(***************************************************************************)
\* the packing loop has ended without raising
PackingDone ==
    \/ pc \in { "find_section", "redirect", "build", "done" }
    \/ pc = "pack" /\ idx > Len(func_addr_to_simplified_cfg.keys)

\* the new section's content has been rebuilt
SectionOverwritten == pc \in { "find_section", "redirect", "build", "done" }

PatchEnd(p) == p.addr + BufLen(p.data)

\* [a.addr, PatchEnd(a)) and [b.addr, PatchEnd(b)) share an address
Overlap(a, b) == a.addr < PatchEnd(b) /\ b.addr < PatchEnd(a)

PatchesOf(i) == { asm_calls[i].patches[k] : k \in 1..Len(asm_calls[i].patches) }

\* the cursor the loop holds after the i-th call of the encoder
CursorAfter(i) ==
    IF i < Len(asm_calls) THEN asm_calls[i + 1].cursor ELSE next_min_offset_for_asm

\* the byte of the image at a virtual address; -1 where no section's content
\* reaches
ImageByte(img, va) ==
    LET holds == { i \in 1..Len(img.sections) :
                     /\ img.imagebase + img.sections[i].virtual_address <= va
                     /\ va < img.imagebase + img.sections[i].virtual_address
                               + BufLen(img.sections[i].content) }
    IN  IF holds = {} THEN -1
        ELSE BufAt(img.sections[Min(holds)].content,
                   va - (img.imagebase + img.sections[Min(holds)].virtual_address))

\* the image holds exactly these bytes from va on
ImageHolds(img, va, bytes) ==
    \A k \in 1..Len(bytes) : ImageByte(img, va + k - 1) = bytes[k].v

UnmutContent(img) == img.sections[get_section(img, ".unmut")].content

SectionSize(img, name) == img.sections[get_section(img, name)].size

(***************************************************************************)
(* C1  Non-overlap: the address ranges [address, address + len(bytes)) of  *)
(* the patches of two distinct packed functions never overlap, whatever    *)
(* lengths the encoder returned inside its interval.                       *)
(***************************************************************************)
C1_NonOverlap ==
    \A i \in 1..Len(asm_calls) : \A j \in 1..Len(asm_calls) :
        i # j => \A a \in PatchesOf(i) : \A b \in PatchesOf(j) : ~Overlap(a, b)

(***************************************************************************)
(* C2  Order preservation, as claimed: after the packing loop the          *)
(* relocated entry addresses are strictly increasing in the order of the   *)
(* input functions: entry(i) < entry(j) for input positions i < j.         *)
(***************************************************************************)
C2_OrderOfInputFunctions ==
    PackingDone =>
        \A i \in 1..Len(protected_func_addrs) : \A j \in 1..Len(protected_func_addrs) :
            i < j => DictGet(original_to_simplified, protected_func_addrs[i])
                       < DictGet(original_to_simplified, protected_func_addrs[j])

(***************************************************************************)
(* C2  Order preservation, amended: after the packing loop the relocated   *)
(* entry addresses are strictly increasing in the order of the keys of     *)
(* func_addr_to_simplified_cfg, that is in the order in which each         *)
(* distinct original address first occurs in the input.                    *)
(***************************************************************************)
C2_OrderOfDistinctAddresses ==
    PackingDone =>
        \A i \in 1..Len(func_addr_to_simplified_cfg.keys) :
            \A j \in 1..Len(func_addr_to_simplified_cfg.keys) :
                i < j => DictGet(original_to_simplified, func_addr_to_simplified_cfg.keys[i])
                           < DictGet(original_to_simplified, func_addr_to_simplified_cfg.keys[j])

C2_Witness ==
    /\ PackingDone
    /\ Len(func_addr_to_simplified_cfg.keys) >= 2
    /\ Len(asm_calls) = Len(func_addr_to_simplified_cfg.keys)

(***************************************************************************)
(* C3  Redirect correctness: in the image a successful run serializes, the *)
(* bytes at every original address a of the input are the encoding of one  *)
(* unconditional jump to the relocated address the map gives for a.        *)
(***************************************************************************)
C3_RedirectCorrectness ==
    output.written =>
        \A i \in 1..Len(func_addr_to_simplified_cfg.keys) :
            LET a == func_addr_to_simplified_cfg.keys[i]
            IN  ImageHolds(output.image, a, JmpBytes(a, DictGet(original_to_simplified, a)))

(***************************************************************************)
(* C4  All-or-nothing output: the output file is written only once         *)
(* unwrapping, packing, the new section's patches, the redirects and the   *)
(* redirect patches are all done, and it is the patched image; a run that  *)
(* raised has written nothing.                                             *)
(***************************************************************************)
C4_AllOrNothing ==
    /\ (pc = "failed" \/ error # "") => ~output.written
    /\ output.written =>
          /\ pc = "done"
          /\ Len(mutated_func_addrs) = Len(protected_func_addrs)
          /\ Len(asm_calls) = Len(func_addr_to_simplified_cfg.keys)
          /\ Len(unmut_jmp_patches) = Len(func_addr_to_simplified_cfg.keys)
          /\ Len(applied) = Len(unmut_section_patches) + Len(unmut_jmp_patches)
          /\ output.image = pe_obj

C4_Witness ==
    /\ pc = "failed"
    /\ Len(asm_calls) > 0
    /\ pe_obj # NoImage
    /\ ~output.written

(***************************************************************************)
(* C5  Capacity enforcement: the new section never gets content longer     *)
(* than its capacity of 65536 bytes, nor a patch that ends beyond the      *)
(* section's end.                                                          *)
(***************************************************************************)
C5_CapacityEnforced ==
    SectionOverwritten =>
        /\ BufLen(UnmutContent(pe_obj)) <= NEW_SECTION_MAX_SIZE
        /\ \A k \in 1..Len(unmut_section_patches) :
              PatchEnd(unmut_section_patches[k])
                 <= unmut_section_base + NEW_SECTION_MAX_SIZE

(***************************************************************************)
(* C6  Empty input: with an empty address set the run raises the usage     *)
(* error before the image is parsed, before a section is created and       *)
(* before a location binding changes, and writes nothing.                  *)
(***************************************************************************)
C6_EmptyInput ==
    (Len(protected_func_addrs) = 0 /\ pc \notin { "unwrap", "simplify", "rebuild" }) =>
        /\ pc = "failed"
        /\ error = "ValueError"
        /\ pe_obj = NoImage
        /\ loc_db = {}
        /\ unmut_section_patches = <<>>
        /\ ~output.written

C6_Witness ==
    /\ Len(protected_func_addrs) = 0
    /\ pc = "failed"
    /\ error = "ValueError"

C8_IntervalEndsAtSectionEnd ==
    \A i \in 1..Len(asm_calls) :
        /\ asm_calls[i].lo = unmut_section_base + asm_calls[i].cursor
        /\ asm_calls[i].hi = unmut_section_base + NEW_SECTION_MAX_SIZE

(***************************************************************************)
(* C9  Patch application bounds: every patch applied to a section (the new *)
(* section or the located one) is written at offset = address - base with  *)
(* 0 <= offset and offset + len(bytes) <= capacity of the section, at that *)
(* offset, and without changing the buffer's length; a patch out of these  *)
(* bounds makes the run raise instead.                                     *)
(***************************************************************************)
C9_PatchesWithinSection ==
    \A k \in 1..Len(applied) :
        /\ applied[k].offset >= 0
        /\ applied[k].offset + applied[k].dlen <= SectionSize(pe_obj, applied[k].section)
        /\ applied[k].start = applied[k].offset
        /\ applied[k].after = applied[k].before

(***************************************************************************)
(* C10  Relocation map entry: for every packed function the address the    *)
(* relocation map records for its original address (the least address of   *)
(* its patches) is the address its head was bound to, section_base +       *)
(* cursor; the first function's entry is the new section's base.           *)
(***************************************************************************)
C10_EntryIsBoundHead ==
    \A i \in 1..Len(asm_calls) :
        /\ DictGet(original_to_simplified, asm_calls[i].func) = asm_calls[i].head
        /\ asm_calls[i].head = unmut_section_base + asm_calls[i].cursor
        /\ i = 1 => DictGet(original_to_simplified, asm_calls[i].func) = unmut_section_base

C10_Witness ==
    /\ Len(asm_calls) >= 2
    /\ Len(asm_calls[2].patches) = 2
    /\ asm_calls[2].cursor > 0

====
